---- MODULE Spec2Model ----
(***************************************************************************)
(* Incremental sync engine of geekdo-sync (src/src/sync.py, GristSync):    *)
(* the overlap-bounded fetcher, the dependency-ordered upserts into the    *)
(* four Grist tables and the validation pass, run after run against a      *)
(* source play log that grows between runs.                                *)
(***************************************************************************)
EXTENDS Integers, Sequences, FiniteSets, TLC

\* ---------------------------------------------------------------- bounds
MaxPlays == 3        \* plays the source log holds at most (Spec)
MaxRuns == 2         \* run_sync invocations (Spec)
MaxDate == 3         \* play dates are 1..MaxDate
MaxFetchPlays == 5   \* plays of the source log in FetchSpec
MaxLivePlays == 4    \* plays of the source log in FetchLiveSpec
MaxFailPlays == 2    \* plays of the source log in FailSpec
MaxMapPlays == 3     \* play ids in MapSpec; a batch holds one play fewer
MaxBasePlays == 4    \* rows of Plays in BaselineSpec
MaxValRows == 2      \* rows of Plays and of PlayerPlays in ValidateSpec

\* ------------------------------------------------------ program constants
\* Page size of the source API, the literal 100 of the last-page test,
\* scaled down.
PageSize == 2
\* self.overlap_detection_limit = 100, scaled down.
overlap_detection_limit == 2

Dates == 1..MaxDate

Min(S) == CHOOSE x \in S : \A y \in S : x <= y
Max(S) == CHOOSE x \in S : \A y \in S : x >= y

\* ------------------------------------------------------------ source data
APIItem(objectid, name) == [objectid |-> objectid, name |-> name]

\* userid 0 is the absent external id (convert_empty_userid maps 0 to None).
APIPlayer(name, userid, score) == [name |-> name, userid |-> userid, score |-> score]

\* What a logged play can look like, apart from its id and date: an item id
\* under two names, no player list, the same player name twice with and
\* without an external id, two names sharing an external id.
Templates ==
  { [item |-> APIItem(1, "Azul"), players |-> <<>>],
    [item |-> APIItem(1, "Azul Duel"),
     players |-> <<APIPlayer("ann", 0, 10), APIPlayer("ann", 7, 15)>>],
    [item |-> APIItem(2, "Brass"),
     players |-> <<APIPlayer("ann", 7, 20), APIPlayer("bob", 7, 30)>>] }

APIPlay(id, date, t) == [id |-> id, date |-> date, item |-> t.item, players |-> t.players]

VARIABLES
  source,                \* the user's play log at the source: a set of plays
  Items, Players, Plays, PlayerPlays,   \* the four Grist tables, row id = index
  pc,                    \* position of run_sync
  runs,                  \* completed runs
  result,                \* outcome of the last completed run
  dirty,                 \* the source changed since the last run ended
  repeat_run,            \* this run started on the source the previous run saw
  recent_play_ids_dict,  \* run_sync: PlayID -> row id of the recent plays
  mindate,               \* run_sync: <<>> (None) or <<date>>
  page, found_overlap, new_plays,       \* fetch_new_plays_until_overlap locals
  requested,             \* page numbers requested from the source in this run
  players_mapping, items_mapping, plays_mapping,
  calls,                 \* write calls made on the store in this run
  raised,                \* where an exception was raised in this run, or "none"
  exit_code,             \* <<>> or <<code>> of the last process that exited
  trace                  \* the calls of this run, in order: reads of the store,
                         \* delays, page requests, writes, validator checks

vars == <<source, Items, Players, Plays, PlayerPlays, pc, runs, result, dirty,
          repeat_run, recent_play_ids_dict, mindate, page, found_overlap,
          new_plays, requested, players_mapping, items_mapping, plays_mapping,
          calls, raised, exit_code, trace>>

store == <<Items, Players, Plays, PlayerPlays>>

\* ------------------------------------------------------------ the source
\* The source returns plays newest first (date, then id, descending).
SortedPlays(S) ==
  LET sorted[T \in SUBSET S] ==
        IF T = {} THEN <<>>
        ELSE LET p == CHOOSE x \in T : \A y \in T :
                        x.date > y.date \/ (x.date = y.date /\ x.id >= y.id)
             IN <<p>> \o sorted[T \ {p}]
  IN sorted[S]

\* BGGClient.get_plays: one page (PageSize records per page) of the plays
\* dated on or after mindate.
get_plays(src, pg, md) ==
  LET all == SortedPlays({p \in src : md = <<>> \/ p.date >= md[1]})
      first == (pg - 1) * PageSize + 1
      last == IF pg * PageSize < Len(all) THEN pg * PageSize ELSE Len(all)
  IN IF first > Len(all) THEN <<>> ELSE SubSeq(all, first, last)

\* -------------------------------------------------------------- the store
\* list_records(table): every row, in row order.
list_records(table) == table

\* list_records(table, sort="-Date", limit=n): the possible listings; the
\* order among rows of equal date is the store's choice.
list_records_sorted(table, limit) ==
  LET n == IF limit < Len(table) THEN limit ELSE Len(table)
      picks == { f \in [1..n -> DOMAIN table] :
                   /\ \A i, j \in 1..n : i # j => f[i] # f[j]
                   /\ \A i, j \in 1..n : i < j => table[f[i]].Date >= table[f[j]].Date
                   /\ \A r \in DOMAIN table :
                        (\A i \in 1..n : f[i] # r) =>
                          \A i \in 1..n : table[f[i]].Date >= table[r].Date }
  IN { [i \in 1..n |-> table[f[i]]] : f \in picks }

\* add_update_records: for each record in turn, update the non-key fields
\* of the first row matching `require`, or add a row when none matches.
RECURSIVE add_update_records(_, _)
add_update_records(table, records) ==
  IF records = <<>> THEN table
  ELSE LET r == Head(records)
           matches == { i \in DOMAIN table :
                          \A k \in DOMAIN r.require : table[i][k] = r.require[k] }
           next == IF matches = {}
                   THEN Append(table, r.fields @@ r.require @@ [id |-> Len(table) + 1])
                   ELSE [table EXCEPT ![Min(matches)] = r.fields @@ table[Min(matches)]]
       IN add_update_records(next, Tail(records))

\* add_records: append one row per record.
RECURSIVE add_records(_, _)
add_records(table, records) ==
  IF records = <<>> THEN table
  ELSE add_records(Append(table, Head(records) @@ [id |-> Len(table) + 1]),
                   Tail(records))

\* Variant: the mapping holds the 0-based position of the row in the listing
\* instead of the row's id.
MappingOfPosition(rows, key) ==
  [k \in {rows[i][key] : i \in DOMAIN rows} |->
     Max({i \in DOMAIN rows : rows[i][key] = k}) - 1]

\* The mapping the sync_* methods build from a read-back listing: natural
\* key -> row id, a later row overwriting an earlier one with the same key.
MappingOf(rows, key) ==
  [k \in {rows[i][key] : i \in DOMAIN rows} |->
     rows[Max({i \in DOMAIN rows : rows[i][key] = k})].id]

EmptyDict == MappingOf(<<>>, "id")

\* A mapping cut down to some of its keys.
Restrict(f, S) == [k \in S |-> f[k]]

\* ------------------------------------------------------ entity extractors
\* Variant: a later play replaces the item an earlier play gave for the
\* same objectid.
RECURSIVE extract_unique_items_last_wins(_)
extract_unique_items_last_wins(plays) ==
  IF plays = <<>> THEN <<>>
  ELSE LET rest == extract_unique_items_last_wins(Tail(plays))
           item == Head(plays).item
       IN IF \E i \in DOMAIN rest : rest[i].objectid = item.objectid
          THEN rest ELSE <<item>> \o rest

\* extract_unique_items: the items of the plays, first occurrence of each
\* objectid, in order of first occurrence.
RECURSIVE extract_unique_items(_)
extract_unique_items(plays) ==
  IF plays = <<>> THEN <<>>
  ELSE LET front == extract_unique_items(SubSeq(plays, 1, Len(plays) - 1))
           item == plays[Len(plays)].item
       IN IF \E i \in DOMAIN front : front[i].objectid = item.objectid
          THEN front ELSE Append(front, item)

RECURSIVE AllPlayers(_)
AllPlayers(plays) ==
  IF plays = <<>> THEN <<>> ELSE Head(plays).players \o AllPlayers(Tail(plays))

RECURSIVE FirstByName(_)
FirstByName(players) ==
  IF players = <<>> THEN <<>>
  ELSE LET front == FirstByName(SubSeq(players, 1, Len(players) - 1))
           player == players[Len(players)]
       IN IF \E i \in DOMAIN front : front[i].name = player.name
          THEN front ELSE Append(front, player)

\* extract_unique_players: first occurrence of each player name; a play
\* without a player list contributes nothing.
extract_unique_players(plays) == FirstByName(AllPlayers(plays))

\* ------------------------------------------------------- upsert payloads
GristItemUpsert_to_upsert_record(item) ==
  [require |-> [ItemID |-> item.ItemID], fields |-> [Name |-> item.Name]]

\* Variant: the participant is matched on its external id.
GristPlayerUpsert_to_upsert_record_by_userid(player) ==
  [require |-> [UserID |-> player.UserID], fields |-> [Name |-> player.Name]]

GristPlayerUpsert_to_upsert_record(player) ==
  [require |-> [Name |-> player.Name], fields |-> [UserID |-> player.UserID]]

GristPlayUpsert_to_upsert_record(play) ==
  [require |-> [PlayID |-> play.PlayID],
   fields |-> [Date |-> play.Date, Item |-> play.Item]]

\* ---------------------------------------------------------- record mapper
prepare_items(plays) ==
  LET api_items == extract_unique_items(plays)
  IN [i \in DOMAIN api_items |->
        [ItemID |-> api_items[i].objectid, Name |-> api_items[i].name]]

prepare_players(plays) ==
  LET api_players == extract_unique_players(plays)
  IN [i \in DOMAIN api_players |->
        [Name |-> api_players[i].name, UserID |-> api_players[i].userid]]

\* Variant: a play whose item is not in items_mapping keeps an empty item
\* reference.
prepare_plays_keep_missing(plays, items_map) ==
  [i \in DOMAIN plays |->
     [PlayID |-> plays[i].id, Date |-> plays[i].date,
      Item |-> IF plays[i].item.objectid \in DOMAIN items_map
               THEN items_map[plays[i].item.objectid] ELSE 0]]

\* prepare_plays: a play whose item is not in items_mapping is skipped.
prepare_plays(plays, items_map) ==
  LET known == SelectSeq(plays, LAMBDA p : p.item.objectid \in DOMAIN items_map)
  IN [i \in DOMAIN known |->
        [PlayID |-> known[i].id, Date |-> known[i].date,
         Item |-> items_map[known[i].item.objectid]]]

\* Variant: a player missing from players_mapping loses the play all its
\* links.
RECURSIVE prepare_player_plays_drop_play(_, _, _)
prepare_player_plays_drop_play(plays, plays_map, players_map) ==
  IF plays = <<>> THEN <<>>
  ELSE LET play == Head(plays)
           links == IF \/ play.id \notin DOMAIN plays_map
                       \/ \E i \in DOMAIN play.players :
                            play.players[i].name \notin DOMAIN players_map
                    THEN <<>>
                    ELSE [i \in DOMAIN play.players |->
                            [Play |-> plays_map[play.id],
                             Player |-> players_map[play.players[i].name],
                             Score |-> play.players[i].score]]
       IN links \o prepare_player_plays_drop_play(Tail(plays), plays_map, players_map)

\* prepare_player_plays: a play missing from plays_mapping yields no link,
\* a player missing from players_mapping loses that one link.
RECURSIVE prepare_player_plays(_, _, _)
prepare_player_plays(plays, plays_map, players_map) ==
  IF plays = <<>> THEN <<>>
  ELSE LET play == Head(plays)
           known == SelectSeq(play.players, LAMBDA q : q.name \in DOMAIN players_map)
           links == IF play.id \notin DOMAIN plays_map THEN <<>>
                    ELSE [i \in DOMAIN known |->
                            [Play |-> plays_map[play.id],
                             Player |-> players_map[known[i].name],
                             Score |-> known[i].score]]
       IN links \o prepare_player_plays(Tail(plays), plays_map, players_map)

\* ------------------------------------------------------------- validator
\* validate_sync, check 1: the four tables are listed in full, in this order.
validate_sync_reads ==
  <<"list_records", "list_records", "list_records", "list_records">>

\* Variant: the validator returns at the first check that finds a violation.
validate_sync_checks_until_failure(items_data, players_data, plays_data, player_plays_data) ==
  LET valid_item_ids == {items_data[i].id : i \in DOMAIN items_data}
      valid_play_ids == {plays_data[i].id : i \in DOMAIN plays_data}
      valid_player_ids == {players_data[i].id : i \in DOMAIN players_data}
      check2 == \A i \in DOMAIN plays_data : plays_data[i].Item \in valid_item_ids
      check3 == \A i \in DOMAIN player_plays_data :
                  /\ player_plays_data[i].Play \in valid_play_ids
                  /\ player_plays_data[i].Player \in valid_player_ids
      check4 == \A i, j \in DOMAIN plays_data :
                  plays_data[i].PlayID = plays_data[j].PlayID => i = j
  IN IF ~check2 THEN <<[check |-> "check 2", passed |-> FALSE]>>
     ELSE IF ~check3 THEN <<[check |-> "check 2", passed |-> TRUE],
                            [check |-> "check 3", passed |-> FALSE]>>
     ELSE IF ~check4 THEN <<[check |-> "check 2", passed |-> TRUE],
                            [check |-> "check 3", passed |-> TRUE],
                            [check |-> "check 4", passed |-> FALSE]>>
     ELSE <<[check |-> "check 2", passed |-> TRUE],
            [check |-> "check 3", passed |-> TRUE],
            [check |-> "check 4", passed |-> TRUE],
            [check |-> "check 5", passed |-> \A i, j \in DOMAIN items_data :
               items_data[i].ItemID = items_data[j].ItemID => i = j]>>

\* Variant: check 3 looks at the record reference of a link only.
validate_sync_checks_play_reference_only(items_data, players_data, plays_data, player_plays_data) ==
  LET valid_item_ids == {items_data[i].id : i \in DOMAIN items_data}
      valid_play_ids == {plays_data[i].id : i \in DOMAIN plays_data}
  IN <<[check |-> "check 2",
        passed |-> \A i \in DOMAIN plays_data : plays_data[i].Item \in valid_item_ids],
       [check |-> "check 3",
        passed |-> \A i \in DOMAIN player_plays_data :
                     player_plays_data[i].Play \in valid_play_ids],
       [check |-> "check 4",
        passed |-> \A i, j \in DOMAIN plays_data :
                     plays_data[i].PlayID = plays_data[j].PlayID => i = j],
       [check |-> "check 5",
        passed |-> \A i, j \in DOMAIN items_data :
                     items_data[i].ItemID = items_data[j].ItemID => i = j]>>

\* validate_sync, checks 2 to 5 over the full tables: each check collects
\* its violations and clears validation_passed when there is one; no check
\* returns, so the four of them run whatever the earlier ones found.
validate_sync_checks(items_data, players_data, plays_data, player_plays_data) ==
  LET valid_item_ids == {items_data[i].id : i \in DOMAIN items_data}
      valid_play_ids == {plays_data[i].id : i \in DOMAIN plays_data}
      valid_player_ids == {players_data[i].id : i \in DOMAIN players_data}
      invalid_play_items ==
        {i \in DOMAIN plays_data : plays_data[i].Item \notin valid_item_ids}
      invalid_player_plays ==
        {i \in DOMAIN player_plays_data :
           \/ player_plays_data[i].Play \notin valid_play_ids
           \/ player_plays_data[i].Player \notin valid_player_ids}
      duplicate_play_ids ==
        {j \in DOMAIN plays_data :
           \E i \in 1..(j - 1) : plays_data[i].PlayID = plays_data[j].PlayID}
      duplicate_item_ids ==
        {j \in DOMAIN items_data :
           \E i \in 1..(j - 1) : items_data[i].ItemID = items_data[j].ItemID}
  IN <<[check |-> "check 2", passed |-> invalid_play_items = {}],
       [check |-> "check 3", passed |-> invalid_player_plays = {}],
       [check |-> "check 4", passed |-> duplicate_play_ids = {}],
       [check |-> "check 5", passed |-> duplicate_item_ids = {}]>>

\* Variant: a record table without rows fails the validation.
validation_passed_with_plays(report, plays_count) ==
  plays_count > 0 /\ \A i \in DOMAIN report : report[i].passed

\* validation_passed at the end of validate_sync: no check has cleared it;
\* the row counts of check 1 are logged only.
validation_passed(report, plays_count) == \A i \in DOMAIN report : report[i].passed

\* validate_sync: the value returned when the listings succeed.
validate_sync(items_data, players_data, plays_data, player_plays_data) ==
  validation_passed(
    validate_sync_checks(items_data, players_data, plays_data, player_plays_data),
    Len(plays_data))

\* --------------------------------------------------------------- upserter
\* sync_players: nothing to write gives the empty mapping; otherwise upsert
\* by Name and read the whole table back.
\* Variant: the mapping is read before the participants are written.
sync_players_mapping_before_write(table, new_players) ==
  IF new_players = <<>>
  THEN [table |-> table, mapping |-> EmptyDict, called |-> FALSE]
  ELSE [table |-> add_update_records(table,
                    [i \in DOMAIN new_players |->
                       GristPlayerUpsert_to_upsert_record(new_players[i])]),
        mapping |-> MappingOf(list_records(table), "Name"),
        called |-> TRUE]

sync_players(table, new_players) ==
  IF new_players = <<>>
  THEN [table |-> table, mapping |-> EmptyDict, called |-> FALSE]
  ELSE LET written == add_update_records(table,
                        [i \in DOMAIN new_players |->
                           GristPlayerUpsert_to_upsert_record(new_players[i])])
       IN [table |-> written, mapping |-> MappingOf(list_records(written), "Name"),
           called |-> TRUE]

\* Variant: the items are added with add_records, as the links are.
sync_items_add(table, new_items) ==
  IF new_items = <<>>
  THEN [table |-> table, mapping |-> EmptyDict, called |-> FALSE]
  ELSE LET written == add_records(table, new_items)
       IN [table |-> written, mapping |-> MappingOf(list_records(written), "ItemID"),
           called |-> TRUE]

\* Variant: only the items the table does not hold yet are written.
sync_items_insert_only(table, new_items) ==
  LET unknown == SelectSeq(new_items, LAMBDA item :
                   \A i \in DOMAIN table : table[i].ItemID # item.ItemID)
      written == add_update_records(table,
                   [i \in DOMAIN unknown |->
                      GristItemUpsert_to_upsert_record(unknown[i])])
  IN IF new_items = <<>>
     THEN [table |-> table, mapping |-> EmptyDict, called |-> FALSE]
     ELSE [table |-> written, mapping |-> MappingOf(list_records(written), "ItemID"),
           called |-> TRUE]

\* Variant: the mapping returned holds the items of the batch only.
sync_items_mapping_of_batch(table, new_items) ==
  IF new_items = <<>>
  THEN [table |-> table, mapping |-> EmptyDict, called |-> FALSE]
  ELSE LET written == add_update_records(table,
                        [i \in DOMAIN new_items |->
                           GristItemUpsert_to_upsert_record(new_items[i])])
           batch == {new_items[i].ItemID : i \in DOMAIN new_items}
       IN [table |-> written,
           mapping |-> Restrict(MappingOf(list_records(written), "ItemID"), batch),
           called |-> TRUE]

\* sync_items: the same, by ItemID.
sync_items(table, new_items) ==
  IF new_items = <<>>
  THEN [table |-> table, mapping |-> EmptyDict, called |-> FALSE]
  ELSE LET written == add_update_records(table,
                        [i \in DOMAIN new_items |->
                           GristItemUpsert_to_upsert_record(new_items[i])])
       IN [table |-> written, mapping |-> MappingOf(list_records(written), "ItemID"),
           called |-> TRUE]

\* Variant: every prepared play is upserted, known or not.
sync_plays_unfiltered(table, plays_list, existing_play_ids) ==
  IF plays_list = <<>>
  THEN [table |-> table, mapping |-> existing_play_ids, called |-> FALSE]
  ELSE LET written == add_update_records(table,
                        [i \in DOMAIN plays_list |->
                           GristPlayUpsert_to_upsert_record(plays_list[i])])
       IN [table |-> written, mapping |-> MappingOf(list_records(written), "PlayID"),
           called |-> TRUE]

\* sync_plays: plays already in existing_play_ids are filtered out; with
\* nothing left the known mapping is returned, otherwise the rest is
\* upserted by PlayID and the whole table read back.
sync_plays(table, plays_list, existing_play_ids) ==
  LET plays_to_insert ==
        SelectSeq(plays_list, LAMBDA p : p.PlayID \notin DOMAIN existing_play_ids)
  IN IF plays_to_insert = <<>>
     THEN [table |-> table, mapping |-> existing_play_ids, called |-> FALSE]
     ELSE LET written == add_update_records(table,
                           [i \in DOMAIN plays_to_insert |->
                              GristPlayUpsert_to_upsert_record(plays_to_insert[i])])
          IN [table |-> written, mapping |-> MappingOf(list_records(written), "PlayID"),
              called |-> TRUE]

\* sync_player_plays: the links are added with add_records.
sync_player_plays(table, player_plays_list) ==
  IF player_plays_list = <<>>
  THEN [table |-> table, called |-> FALSE]
  ELSE [table |-> add_records(table, player_plays_list), called |-> TRUE]

\* ---------------------------------------------------------------- fetcher
\* Variant: of the overlapping page the known plays are kept.
page_new_plays_known(response, existing_play_ids) ==
  SelectSeq(response, LAMBDA p : p.id \in existing_play_ids)

\* Variant: the overlapping page is kept whole.
page_new_plays_unfiltered(response, existing_play_ids) == response

\* Variant: the overlapping page is dropped.
page_new_plays_dropped(response, existing_play_ids) == <<>>

\* The new plays of a page that overlaps the known ids.
page_new_plays(response, existing_play_ids) ==
  SelectSeq(response, LAMBDA p : p.id \notin existing_play_ids)

\* Variant: an overlap does not end the loop.
fetch_stops_on_short_page(response, overlap) == Len(response) < PageSize

\* Variant: a full page counts as the last page.
fetch_stops_on_full_page(response, overlap) ==
  Len(response) <= PageSize \/ overlap # {}

\* The loop of fetch_new_plays_until_overlap ends after a page that is
\* short (the last page) or overlaps.
\* Variant: only an overlap ends the loop after a page with plays.
fetch_stops_on_overlap(response, overlap) == overlap # {}

fetch_stops(response, overlap) == Len(response) < PageSize \/ overlap # {}

\* get_recent_plays_from_grist: PlayID -> row id over one listing of the
\* most recent plays.
get_recent_plays_from_grist(plays_data) == MappingOf(plays_data, "PlayID")

\* get_most_recent_play_date: <<>> when there is no play.
get_most_recent_play_date(table) ==
  IF table = <<>> THEN <<>>
  ELSE LET plays_data == CHOOSE l \in list_records_sorted(table, 1) : TRUE
       IN <<plays_data[1].Date>>

\* Variant: mindate is the most recent date itself.
run_sync_mindate_no_buffer(recent_play_ids_set, most_recent_date) ==
  IF recent_play_ids_set = {} THEN <<>> ELSE most_recent_date

\* Variant: mindate is the day after the most recent date.
run_sync_mindate_day_after(recent_play_ids_set, most_recent_date) ==
  IF recent_play_ids_set = {} THEN <<>>
  ELSE IF most_recent_date # <<>> THEN <<most_recent_date[1] + 1>> ELSE <<>>

\* run_sync, phase 1: no recent play means a full sync without mindate;
\* otherwise mindate is the most recent date minus one day.
run_sync_mindate(recent_play_ids_set, most_recent_date) ==
  IF recent_play_ids_set = {} THEN <<>>
  ELSE IF most_recent_date # <<>> THEN <<most_recent_date[1] - 1>> ELSE <<>>

\* run_sync, phase 1: the reads of the store; the second one, for the most
\* recent date, is made only when the first one found plays.
run_sync_baseline_reads(recent_play_ids_set) ==
  IF recent_play_ids_set = {} THEN <<"list_records">>
  ELSE <<"list_records", "list_records">>

\* Variant: the delay comes before every request.
fetch_request_delay_always(pg) == <<"sleep", "get_plays">>

\* fetch_new_plays_until_overlap: time.sleep before the request of every
\* page but the first.
fetch_request(pg) == IF pg > 1 THEN <<"sleep", "get_plays">> ELSE <<"get_plays">>

\* The calls of the sync_* methods on the store: the write, then the
\* listing of the whole table; the links are not read back.
sync_players_calls == <<"add_update_records", "list_records">>

sync_items_calls == <<"add_update_records", "list_records">>

sync_plays_calls == <<"add_update_records", "list_records">>

sync_player_plays_calls == <<"add_records">>

\* Variant: after the participants are written the run fetches again.
run_sync_next_fetch_again(p) ==
  CASE p = "sync_players" -> "fetch"
    [] p = "sync_items" -> "sync_plays"
    [] p = "sync_plays" -> "sync_player_plays"
    [] p = "sync_player_plays" -> "validate_sync"

\* Variant: the records are written before the items.
run_sync_next_plays_first(p) ==
  CASE p = "sync_players" -> "sync_plays"
    [] p = "sync_plays" -> "sync_items"
    [] p = "sync_items" -> "sync_player_plays"
    [] p = "sync_player_plays" -> "validate_sync"

\* run_sync, phases 4 and 5: the order of the write phases.
run_sync_next(p) ==
  CASE p = "sync_players" -> "sync_items"
    [] p = "sync_items" -> "sync_plays"
    [] p = "sync_plays" -> "sync_player_plays"
    [] p = "sync_player_plays" -> "validate_sync"

\* Variant: new plays or not, the run goes on to the write phases.
run_sync_short_circuit_never(plays) == FALSE

\* run_sync, phase 2: with no new play the run returns True at once.
run_sync_short_circuit(plays) == plays = <<>>

\* Variant: the validator's result is ignored.
run_sync_outcome_ignored(valid) == "success"

\* run_sync, phase 6: True when validate_sync passed, False otherwise.
run_sync_outcome(valid) == IF valid THEN "success" ELSE "failed"

\* Variant: the handler of run_sync reports success.
run_sync_except_success(exc) == "success"

\* run_sync, `except Exception`: an exception raised in the try body makes
\* run_sync return False; KeyboardInterrupt is not an Exception and leaves
\* run_sync.
run_sync_except(exc) == IF exc = "Exception" THEN "failed" ELSE exc

\* Variant: an interrupt exits like any failure.
main_interrupt_as_failure(outcome) ==
  CASE outcome = "success" -> 0
    [] outcome = "failed" -> 1
    [] outcome = "KeyboardInterrupt" -> 1
    [] outcome = "ConfigurationError" -> 1

\* main: the exit code of the process, from what run_sync returned or let
\* through, or from the configuration that could not be loaded.
main(outcome) ==
  CASE outcome = "success" -> 0
    [] outcome = "failed" -> 1
    [] outcome = "KeyboardInterrupt" -> 130
    [] outcome = "ConfigurationError" -> 1

\* ---------------------------------------------------------------- actions
Init ==
  /\ source = {}
  /\ Items = <<>> /\ Players = <<>> /\ Plays = <<>> /\ PlayerPlays = <<>>
  /\ pc = "idle" /\ runs = 0 /\ result = "none"
  /\ dirty = TRUE /\ repeat_run = FALSE
  /\ recent_play_ids_dict = EmptyDict /\ mindate = <<>>
  /\ page = 1 /\ found_overlap = FALSE /\ new_plays = <<>> /\ requested = <<>>
  /\ players_mapping = EmptyDict /\ items_mapping = EmptyDict
  /\ plays_mapping = EmptyDict
  /\ calls = <<>>
  /\ raised = "none" /\ exit_code = <<>> /\ trace = <<>>

\* The locals of run_sync before a run starts.
NoRun ==
  /\ repeat_run' = FALSE
  /\ recent_play_ids_dict' = EmptyDict /\ mindate' = <<>>
  /\ page' = 1 /\ found_overlap' = FALSE /\ new_plays' = <<>> /\ requested' = <<>>
  /\ players_mapping' = EmptyDict /\ items_mapping' = EmptyDict
  /\ plays_mapping' = EmptyDict /\ calls' = <<>>
  /\ raised' = "none" /\ trace' = <<>>

\* Between runs the user logs a play at the source, with any date; the locals
\* of the run that has returned are gone.  The log only grows: the fetcher
\* takes the plays it has already synced as unchanged at the source.
SourceAdd ==
  /\ pc = "idle" /\ runs < MaxRuns /\ Cardinality(source) < MaxPlays
  /\ \E d \in Dates, t \in Templates :
       source' = source \cup {APIPlay(Cardinality(source) + 1, d, t)}
  /\ dirty' = TRUE
  /\ NoRun
  /\ UNCHANGED <<store, pc, runs, result, exit_code>>

\* run_sync, phase 1: the baseline reads.
Baseline ==
  /\ pc = "idle" /\ runs < MaxRuns
  /\ \E plays_data \in list_records_sorted(Plays, overlap_detection_limit) :
       /\ recent_play_ids_dict' = get_recent_plays_from_grist(plays_data)
       /\ mindate' = run_sync_mindate(DOMAIN recent_play_ids_dict',
                                      get_most_recent_play_date(Plays))
       /\ trace' = run_sync_baseline_reads(DOMAIN recent_play_ids_dict')
  /\ repeat_run' = (runs >= 1 /\ ~dirty)
  /\ page' = 1 /\ found_overlap' = FALSE /\ new_plays' = <<>> /\ requested' = <<>>
  /\ players_mapping' = EmptyDict /\ items_mapping' = EmptyDict
  /\ plays_mapping' = EmptyDict /\ calls' = <<>>
  /\ raised' = "none"
  /\ pc' = "fetch"
  /\ UNCHANGED <<source, store, runs, result, dirty, exit_code>>

\* One iteration of the loop of fetch_new_plays_until_overlap.
FetchPage ==
  /\ pc = "fetch"
  /\ \E response \in {get_plays(source, page, mindate)} :
     LET page_play_ids == {response[i].id : i \in DOMAIN response}
         overlap == page_play_ids \cap DOMAIN recent_play_ids_dict
     IN /\ requested' = Append(requested, page)
        /\ trace' = trace \o fetch_request(page)
        /\ IF response = <<>>
           THEN /\ pc' = "fetched"
                /\ UNCHANGED <<new_plays, found_overlap, page>>
           ELSE /\ new_plays' =
                     IF overlap # {}
                     THEN new_plays \o page_new_plays(response, DOMAIN recent_play_ids_dict)
                     ELSE new_plays \o response
                /\ found_overlap' = (overlap # {})
                /\ IF fetch_stops(response, overlap)
                   THEN pc' = "fetched" /\ page' = page
                   ELSE pc' = "fetch" /\ page' = page + 1
  /\ UNCHANGED <<source, store, runs, result, dirty, repeat_run,
                 recent_play_ids_dict, mindate, players_mapping, items_mapping,
                 plays_mapping, calls, raised, exit_code>>

\* run_sync: no new play ends the run with success, without any write.
NoNewPlays ==
  /\ pc = "fetched" /\ run_sync_short_circuit(new_plays)
  /\ pc' = "idle" /\ runs' = runs + 1 /\ result' = "success" /\ dirty' = FALSE
  /\ exit_code' = <<main(result')>>
  /\ UNCHANGED <<source, store, repeat_run, recent_play_ids_dict, mindate, page,
                 found_overlap, new_plays, requested, players_mapping,
                 items_mapping, plays_mapping, calls, raised, trace>>

\* run_sync, phases 3 and 4: the players of the new plays are prepared and
\* upserted.
SyncPlayers ==
  /\ pc = "fetched" /\ ~run_sync_short_circuit(new_plays)
  /\ \E r \in {sync_players(Players, prepare_players(new_plays))} :
        /\ Players' = r.table
        /\ players_mapping' = r.mapping
        /\ calls' = IF r.called THEN Append(calls, "Players") ELSE calls
        /\ trace' = IF r.called THEN trace \o sync_players_calls ELSE trace
  /\ pc' = run_sync_next("sync_players")
  /\ UNCHANGED <<source, Items, Plays, PlayerPlays, runs, result, dirty,
                 repeat_run, recent_play_ids_dict, mindate, page, found_overlap,
                 new_plays, requested, items_mapping, plays_mapping, raised,
                 exit_code>>

SyncItems ==
  /\ pc = "sync_items"
  /\ \E r \in {sync_items(Items, prepare_items(new_plays))} :
        /\ Items' = r.table
        /\ items_mapping' = r.mapping
        /\ calls' = IF r.called THEN Append(calls, "Items") ELSE calls
        /\ trace' = IF r.called THEN trace \o sync_items_calls ELSE trace
  /\ pc' = run_sync_next(pc)
  /\ UNCHANGED <<source, Players, Plays, PlayerPlays, runs, result, dirty,
                 repeat_run, recent_play_ids_dict, mindate, page, found_overlap,
                 new_plays, requested, players_mapping, plays_mapping, raised,
                 exit_code>>

SyncPlays ==
  /\ pc = "sync_plays"
  /\ \E r \in {sync_plays(Plays, prepare_plays(new_plays, items_mapping),
                          recent_play_ids_dict)} :
        /\ Plays' = r.table
        /\ plays_mapping' = r.mapping
        /\ calls' = IF r.called THEN Append(calls, "Plays") ELSE calls
        /\ trace' = IF r.called THEN trace \o sync_plays_calls ELSE trace
  /\ pc' = run_sync_next(pc)
  /\ UNCHANGED <<source, Items, Players, PlayerPlays, runs, result, dirty,
                 repeat_run, recent_play_ids_dict, mindate, page, found_overlap,
                 new_plays, requested, players_mapping, items_mapping, raised,
                 exit_code>>

SyncPlayerPlays ==
  /\ pc = "sync_player_plays"
  /\ \E r \in {sync_player_plays(PlayerPlays,
                 prepare_player_plays(new_plays, plays_mapping, players_mapping))} :
        /\ PlayerPlays' = r.table
        /\ calls' = IF r.called THEN Append(calls, "PlayerPlays") ELSE calls
        /\ trace' = IF r.called THEN trace \o sync_player_plays_calls ELSE trace
  /\ pc' = run_sync_next(pc)
  /\ UNCHANGED <<source, Items, Players, Plays, runs, result, dirty, repeat_run,
                 recent_play_ids_dict, mindate, page, found_overlap, new_plays,
                 requested, players_mapping, items_mapping, plays_mapping,
                 raised, exit_code>>

\* Variant: a failed validation empties the table of links.
Validate_clears_links ==
  /\ pc = "validate_sync"
  /\ \E report \in {validate_sync_checks(list_records(Items), list_records(Players),
                                         list_records(Plays), list_records(PlayerPlays))} :
        /\ result' = run_sync_outcome(validation_passed(report, Len(Plays)))
        /\ trace' = trace \o validate_sync_reads \o
                       [i \in DOMAIN report |-> report[i].check]
  /\ PlayerPlays' = IF result' = "success" THEN PlayerPlays ELSE <<>>
  /\ pc' = "idle" /\ runs' = runs + 1 /\ dirty' = FALSE
  /\ exit_code' = <<main(result')>>
  /\ UNCHANGED <<source, Items, Players, Plays, repeat_run, recent_play_ids_dict,
                 mindate, page, found_overlap, new_plays, requested,
                 players_mapping, items_mapping, plays_mapping, calls, raised>>

\* run_sync, phase 6: the validator's result is the run's outcome.
Validate ==
  /\ pc = "validate_sync"
  /\ \E report \in {validate_sync_checks(list_records(Items), list_records(Players),
                                         list_records(Plays), list_records(PlayerPlays))} :
        /\ result' = run_sync_outcome(validation_passed(report, Len(Plays)))
        /\ trace' = trace \o validate_sync_reads \o
                       [i \in DOMAIN report |-> report[i].check]
  /\ pc' = "idle" /\ runs' = runs + 1 /\ dirty' = FALSE
  /\ exit_code' = <<main(result')>>
  /\ UNCHANGED <<source, store, repeat_run, recent_play_ids_dict, mindate, page,
                 found_overlap, new_plays, requested, players_mapping,
                 items_mapping, plays_mapping, calls, raised>>

Next ==
  \/ SourceAdd
  \/ Baseline
  \/ FetchPage
  \/ NoNewPlays
  \/ SyncPlayers
  \/ SyncItems
  \/ SyncPlays
  \/ SyncPlayerPlays
  \/ Validate

Spec == Init /\ [][Next]_vars

TypeOK ==
  /\ pc \in {"idle", "fetch", "fetched", "sync_items",
             "sync_plays", "sync_player_plays", "validate_sync"}
  /\ runs \in 0..MaxRuns
  /\ Len(Plays) <= MaxPlays

\* ------------------------------------------------- the fetcher on its own
\* fetch_new_plays_until_overlap applied to any source log, any set of known
\* ids and any mindate.
FetchDates == 1..(MaxDate - 1)

FetchSources ==
  UNION { { {APIPlay(i, d[i], CHOOSE t \in Templates : t.players = <<>>) : i \in 1..n} :
            d \in [1..n -> FetchDates] } : n \in 0..MaxFetchPlays }

InitFetch ==
  /\ source \in FetchSources
  /\ Items = <<>> /\ Players = <<>> /\ Plays = <<>> /\ PlayerPlays = <<>>
  /\ pc = "fetch" /\ runs = 0 /\ result = "none"
  /\ dirty = TRUE /\ repeat_run = FALSE
  /\ recent_play_ids_dict \in {[i \in E |-> i] : E \in SUBSET (1..MaxFetchPlays)}
  /\ mindate \in {<<>>} \cup {<<d>> : d \in FetchDates}
  /\ page = 1 /\ found_overlap = FALSE /\ new_plays = <<>> /\ requested = <<>>
  /\ players_mapping = EmptyDict /\ items_mapping = EmptyDict
  /\ plays_mapping = EmptyDict
  /\ calls = <<>>
  /\ raised = "none" /\ exit_code = <<>> /\ trace = <<>>

NextFetch == FetchPage

FetchSpec == InitFetch /\ [][NextFetch]_vars

FetchLiveSources ==
  {src \in FetchSources : \A p \in src : p.id <= MaxLivePlays}

InitFetchLive ==
  /\ source \in FetchLiveSources
  /\ Items = <<>> /\ Players = <<>> /\ Plays = <<>> /\ PlayerPlays = <<>>
  /\ pc = "fetch" /\ runs = 0 /\ result = "none"
  /\ dirty = TRUE /\ repeat_run = FALSE
  /\ recent_play_ids_dict \in {[i \in E |-> i] : E \in SUBSET (1..MaxLivePlays)}
  /\ mindate \in {<<>>} \cup {<<d>> : d \in FetchDates}
  /\ page = 1 /\ found_overlap = FALSE /\ new_plays = <<>> /\ requested = <<>>
  /\ players_mapping = EmptyDict /\ items_mapping = EmptyDict
  /\ plays_mapping = EmptyDict
  /\ calls = <<>>
  /\ raised = "none" /\ exit_code = <<>> /\ trace = <<>>

\* The loop is one thread of straight-line code: while it has not returned,
\* the next request is made and answered.
FetchLiveSpec == InitFetchLive /\ [][NextFetch]_vars /\ WF_vars(FetchPage)

\* ------------------------------------------------- runs that can go wrong
\* The same runs with the failures of the environment: the configuration is
\* missing, a request to the source or to the store raises, the process is
\* interrupted.  The source log is fixed; the document is empty at first or
\* holds an item that was entered twice by hand.
FailSources ==
  UNION { { {APIPlay(i, d[i], t[i]) : i \in 1..n} :
            d \in [1..n -> FetchDates], t \in [1..n -> Templates] } :
          n \in 0..MaxFailPlays }

DuplicatedItem ==
  <<[id |-> 1, ItemID |-> 1, Name |-> "Azul"],
    [id |-> 2, ItemID |-> 1, Name |-> "Azul"]>>

InitFail ==
  /\ source \in FailSources
  /\ Items \in {<<>>, DuplicatedItem}
  /\ Players = <<>> /\ Plays = <<>> /\ PlayerPlays = <<>>
  /\ pc = "idle" /\ runs = 0 /\ result = "none"
  /\ dirty = TRUE /\ repeat_run = FALSE
  /\ recent_play_ids_dict = EmptyDict /\ mindate = <<>>
  /\ page = 1 /\ found_overlap = FALSE /\ new_plays = <<>> /\ requested = <<>>
  /\ players_mapping = EmptyDict /\ items_mapping = EmptyDict
  /\ plays_mapping = EmptyDict
  /\ calls = <<>>
  /\ raised = "none" /\ exit_code = <<>> /\ trace = <<>>

\* An exception leaves the try body of run_sync: the run is over, and main
\* exits on what run_sync returned or let through.
RunRaises(exc) ==
  /\ result' = run_sync_except(exc)
  /\ exit_code' = <<main(result')>>
  /\ pc' = "idle" /\ runs' = runs + 1 /\ dirty' = FALSE

\* main: the configuration cannot be loaded; the process exits before any
\* request.
ConfigError ==
  /\ pc = "idle" /\ runs < MaxRuns
  /\ raised' = "ConfigurationError"
  /\ result' = "ConfigurationError"
  /\ exit_code' = <<main(result')>>
  /\ runs' = runs + 1
  /\ repeat_run' = FALSE
  /\ recent_play_ids_dict' = EmptyDict /\ mindate' = <<>>
  /\ page' = 1 /\ found_overlap' = FALSE /\ new_plays' = <<>> /\ requested' = <<>>
  /\ players_mapping' = EmptyDict /\ items_mapping' = EmptyDict
  /\ plays_mapping' = EmptyDict /\ calls' = <<>> /\ trace' = <<>>
  /\ UNCHANGED <<source, store, pc, dirty>>

\* Variant: the failed read of the store ends the run.
BaselineError_raises ==
  /\ pc = "idle" /\ runs < MaxRuns
  /\ recent_play_ids_dict' = EmptyDict /\ mindate' = <<>>
  /\ trace' = run_sync_baseline_reads({})
  /\ raised' = "baseline"
  /\ repeat_run' = (runs >= 1 /\ ~dirty)
  /\ page' = 1 /\ found_overlap' = FALSE /\ new_plays' = <<>> /\ requested' = <<>>
  /\ players_mapping' = EmptyDict /\ items_mapping' = EmptyDict
  /\ plays_mapping' = EmptyDict /\ calls' = <<>>
  /\ result' = run_sync_except("Exception")
  /\ exit_code' = <<main(result')>>
  /\ runs' = runs + 1 /\ dirty' = FALSE
  /\ UNCHANGED <<source, store, pc>>

\* run_sync, phase 1, with a read of the store that raises.  Both baseline
\* methods catch the exception themselves: get_recent_plays_from_grist
\* returns {} and get_most_recent_play_date returns None, and the run goes on.
BaselineError ==
  /\ pc = "idle" /\ runs < MaxRuns
  /\ \/ /\ recent_play_ids_dict' = EmptyDict
        /\ mindate' = run_sync_mindate({}, <<>>)
        /\ trace' = run_sync_baseline_reads({})
     \/ \E plays_data \in list_records_sorted(Plays, overlap_detection_limit) :
          /\ plays_data # <<>>
          /\ recent_play_ids_dict' = get_recent_plays_from_grist(plays_data)
          /\ mindate' = run_sync_mindate(DOMAIN recent_play_ids_dict', <<>>)
          /\ trace' = run_sync_baseline_reads(DOMAIN recent_play_ids_dict')
  /\ raised' = "baseline"
  /\ repeat_run' = (runs >= 1 /\ ~dirty)
  /\ page' = 1 /\ found_overlap' = FALSE /\ new_plays' = <<>> /\ requested' = <<>>
  /\ players_mapping' = EmptyDict /\ items_mapping' = EmptyDict
  /\ plays_mapping' = EmptyDict /\ calls' = <<>>
  /\ pc' = "fetch"
  /\ UNCHANGED <<source, store, runs, result, dirty, exit_code>>

\* The page request raises (BGGClient.get_plays raises ValueError): nothing
\* in the fetcher catches it.
FetchError ==
  /\ pc = "fetch"
  /\ requested' = Append(requested, page)
  /\ trace' = trace \o fetch_request(page)
  /\ raised' = "fetch"
  /\ RunRaises("Exception")
  /\ UNCHANGED <<source, store, repeat_run, recent_play_ids_dict, mindate, page,
                 found_overlap, new_plays, players_mapping, items_mapping,
                 plays_mapping, calls>>

\* The store rejects the write call of a sync_* method: the call raises,
\* nothing is written, and no sync_* method catches it.
WriteError ==
  /\ \/ /\ pc = "fetched" /\ ~run_sync_short_circuit(new_plays)
        /\ sync_players(Players, prepare_players(new_plays)).called
        /\ raised' = "sync_players" /\ trace' = Append(trace, "add_update_records")
     \/ /\ pc = "sync_items"
        /\ sync_items(Items, prepare_items(new_plays)).called
        /\ raised' = "sync_items" /\ trace' = Append(trace, "add_update_records")
     \/ /\ pc = "sync_plays"
        /\ sync_plays(Plays, prepare_plays(new_plays, items_mapping),
                      recent_play_ids_dict).called
        /\ raised' = "sync_plays" /\ trace' = Append(trace, "add_update_records")
     \/ /\ pc = "sync_player_plays"
        /\ sync_player_plays(PlayerPlays,
             prepare_player_plays(new_plays, plays_mapping, players_mapping)).called
        /\ raised' = "sync_player_plays" /\ trace' = Append(trace, "add_records")
  /\ RunRaises("Exception")
  /\ UNCHANGED <<source, store, repeat_run, recent_play_ids_dict, mindate, page,
                 found_overlap, new_plays, requested, players_mapping,
                 items_mapping, plays_mapping, calls>>

\* A read of validate_sync raises: validate_sync catches it and returns
\* False, and run_sync returns False.
ValidateError ==
  /\ pc = "validate_sync"
  /\ raised' = "validate_sync"
  /\ \E n \in DOMAIN validate_sync_reads :
       trace' = trace \o SubSeq(validate_sync_reads, 1, n)
  /\ result' = "failed"
  /\ exit_code' = <<main(result')>>
  /\ pc' = "idle" /\ runs' = runs + 1 /\ dirty' = FALSE
  /\ UNCHANGED <<source, store, repeat_run, recent_play_ids_dict, mindate, page,
                 found_overlap, new_plays, requested, players_mapping,
                 items_mapping, plays_mapping, calls>>

\* Variant: the interrupt undoes what the run has written to the tables of
\* the independent entities.
Interrupt_rolls_back ==
  /\ pc # "idle"
  /\ raised' = "KeyboardInterrupt"
  /\ RunRaises("KeyboardInterrupt")
  /\ Items' = SubSeq(Items, 1, Len(Items) - 1)
  /\ Players' = SubSeq(Players, 1, Len(Players) - 1)
  /\ UNCHANGED <<source, Plays, PlayerPlays, repeat_run, recent_play_ids_dict,
                 mindate, page, found_overlap, new_plays, requested,
                 players_mapping, items_mapping, plays_mapping, calls, trace>>

\* The process is interrupted during run_sync.
Interrupt ==
  /\ pc # "idle"
  /\ raised' = "KeyboardInterrupt"
  /\ RunRaises("KeyboardInterrupt")
  /\ UNCHANGED <<source, store, repeat_run, recent_play_ids_dict, mindate, page,
                 found_overlap, new_plays, requested, players_mapping,
                 items_mapping, plays_mapping, calls, trace>>

NextFail ==
  \/ ConfigError
  \/ Baseline
  \/ BaselineError
  \/ FetchPage
  \/ FetchError
  \/ NoNewPlays
  \/ SyncPlayers
  \/ SyncItems
  \/ SyncPlays
  \/ SyncPlayerPlays
  \/ WriteError
  \/ Validate
  \/ ValidateError
  \/ Interrupt

FailSpec == InitFail /\ [][NextFail]_vars

\* ------------------------------------------ the record phase on its own
\* prepare_plays, sync_plays, prepare_player_plays and sync_player_plays
\* applied to any batch of plays with distinct ids and to any item and
\* participant mappings, gaps included, over a document that holds plays
\* 1..k already; the known plays come from a listing of that document.
RECURSIVE MapBatches(_)
MapBatches(n) ==
  IF n = 0 THEN {<<>>}
  ELSE LET shorter == MapBatches(n - 1)
       IN shorter \cup
          { Append(b, APIPlay(i, MaxDate, t)) :
              b \in {x \in shorter : Len(x) = n - 1},
              i \in 1..MaxMapPlays, t \in Templates }

DistinctIds(b) == \A i, j \in DOMAIN b : b[i].id = b[j].id => i = j

MapItems ==
  <<[id |-> 1, ItemID |-> 1, Name |-> "Azul"],
    [id |-> 2, ItemID |-> 2, Name |-> "Brass"]>>

MapPlayers ==
  <<[id |-> 1, Name |-> "ann", UserID |-> 7],
    [id |-> 2, Name |-> "bob", UserID |-> 7]>>

MapStoredPlays(k) == [i \in 1..k |-> [id |-> i, PlayID |-> i, Date |-> 1, Item |-> 1]]

InitMap ==
  /\ source = {}
  /\ Items = MapItems /\ Players = MapPlayers /\ PlayerPlays = <<>>
  /\ Plays \in {MapStoredPlays(k) : k \in 0..MaxMapPlays}
  /\ recent_play_ids_dict \in
       {get_recent_plays_from_grist(plays_data) :
          plays_data \in list_records_sorted(Plays, overlap_detection_limit)}
  /\ new_plays \in {b \in MapBatches(MaxMapPlays - 1) : DistinctIds(b)}
  /\ items_mapping \in
       {Restrict(MappingOf(Items, "ItemID"), S) : S \in SUBSET {1, 2}}
  /\ players_mapping \in
       {Restrict(MappingOf(Players, "Name"), S) : S \in SUBSET {"ann", "bob"}}
  /\ plays_mapping = EmptyDict
  /\ pc = "sync_plays" /\ runs = 0 /\ result = "none"
  /\ dirty = TRUE /\ repeat_run = FALSE
  /\ mindate = <<>> /\ page = 1 /\ found_overlap = FALSE /\ requested = <<>>
  /\ calls = <<>>
  /\ raised = "none" /\ exit_code = <<>> /\ trace = <<>>

NextMap ==
  \/ SyncPlays
  \/ SyncPlayerPlays

MapSpec == InitMap /\ [][NextMap]_vars

\* ------------------------------------------- the baseline on its own
\* run_sync, phase 1, over any record table: rows of any dates, each with
\* its own PlayID.
BaselineTables ==
  UNION { { [i \in 1..k |-> [id |-> i, PlayID |-> k + 1 - i, Date |-> d[i], Item |-> 1]] :
            d \in [1..k -> Dates] } : k \in 0..MaxBasePlays }

InitBaseline ==
  /\ source = {}
  /\ Items = MapItems /\ Players = <<>> /\ PlayerPlays = <<>>
  /\ Plays \in BaselineTables
  /\ pc = "idle" /\ runs = 0 /\ result = "none"
  /\ dirty = TRUE /\ repeat_run = FALSE
  /\ recent_play_ids_dict = EmptyDict /\ mindate = <<>>
  /\ page = 1 /\ found_overlap = FALSE /\ new_plays = <<>> /\ requested = <<>>
  /\ players_mapping = EmptyDict /\ items_mapping = EmptyDict
  /\ plays_mapping = EmptyDict
  /\ calls = <<>>
  /\ raised = "none" /\ exit_code = <<>> /\ trace = <<>>

NextBaseline == Baseline

BaselineSpec == InitBaseline /\ [][NextBaseline]_vars

\* ------------------------------------------ the validator on its own
\* validate_sync over documents of any content, broken references and
\* duplicated keys included.
RECURSIVE TablesOf(_, _)
TablesOf(rows, n) ==
  IF n = 0 THEN {<<>>}
  ELSE LET shorter == TablesOf(rows, n - 1)
       IN shorter \cup
          { Append(t, r @@ [id |-> n]) : t \in {x \in shorter : Len(x) = n - 1},
                                         r \in rows }

ValItemTables ==
  TablesOf({[ItemID |-> 1, Name |-> "Azul"], [ItemID |-> 2, Name |-> "Brass"]}, 2)

ValPlayerTables ==
  TablesOf({[Name |-> "ann", UserID |-> 7]}, 1) \cup {MapPlayers}

ValPlayTables ==
  TablesOf({[PlayID |-> k, Date |-> 1, Item |-> i] : k \in 1..2, i \in 1..2},
           MaxValRows)

ValPlayerPlayTables ==
  TablesOf({[Play |-> k, Player |-> q, Score |-> 10] : k \in 1..2, q \in 1..2},
           MaxValRows)

InitValidate ==
  /\ source = {}
  /\ Items \in ValItemTables /\ Players \in ValPlayerTables
  /\ Plays \in ValPlayTables /\ PlayerPlays \in ValPlayerPlayTables
  /\ pc = "validate_sync" /\ runs = 0 /\ result = "none"
  /\ dirty = TRUE /\ repeat_run = FALSE
  /\ recent_play_ids_dict = EmptyDict /\ mindate = <<>>
  /\ page = 1 /\ found_overlap = FALSE /\ new_plays = <<>> /\ requested = <<>>
  /\ players_mapping = EmptyDict /\ items_mapping = EmptyDict
  /\ plays_mapping = EmptyDict
  /\ calls = <<>>
  /\ raised = "none" /\ exit_code = <<>> /\ trace = <<>>

NextValidate ==
  \/ Validate
  \/ ValidateError

ValidateSpec == InitValidate /\ [][NextValidate]_vars

\* ----------------------------------------------------------------- claims
\* Page k of the source as the current fetch sees it.
PageOf(k) == get_plays(source, k, mindate)

PageIds(k) == {PageOf(k)[i].id : i \in DOMAIN PageOf(k)}

existing_ids == DOMAIN recent_play_ids_dict

Overlaps(k) == PageIds(k) \cap existing_ids # {}

RECURSIVE PagesUpTo(_)
PagesUpTo(k) == IF k = 0 THEN <<>> ELSE PagesUpTo(k - 1) \o PageOf(k)

PageNumbers == 1..(Cardinality(source) + 1)

\* C1: when page k is the first page whose ids intersect existing_ids, the
\* fetcher returns exactly the records of pages 1..k whose id is not in
\* existing_ids, in page order.
C1_OverlapTermination ==
  pc = "fetched" =>
    \A k \in PageNumbers :
      (Overlaps(k) /\ \A j \in 1..(k - 1) : ~Overlaps(j)) =>
        new_plays = SelectSeq(PagesUpTo(k), LAMBDA p : p.id \notin existing_ids)

C1_Witness ==
  /\ pc = "fetched" /\ Overlaps(2) /\ ~Overlaps(1)
  /\ Len(new_plays) = 2 * PageSize - 1

\* A page after which the fetcher stops: empty, short, or overlapping.
StopsAt(k) == Len(PageOf(k)) < PageSize \/ Overlaps(k)

\* C9: the pages requested are 1, 2, ..., k, each once, none of the pages
\* before k is a stopping page, and once the fetch is over k is the first
\* stopping page, so that page k+1 is never requested.
C9_PagesRequested ==
  /\ requested = [i \in 1..Len(requested) |-> i]
  /\ \A i \in 1..(Len(requested) - 1) : ~StopsAt(i)
  /\ pc = "fetch" => (page = Len(requested) + 1 /\ \A i \in 1..Len(requested) : ~StopsAt(i))
  /\ pc = "fetched" => (requested # <<>> /\ StopsAt(Len(requested)))

C9_Witness ==
  /\ pc = "fetched" /\ requested = <<1, 2>>
  /\ Overlaps(2) /\ Len(PageOf(2)) = PageSize /\ PageOf(3) # <<>>

\* C10: with no existing id the fetcher walks the pages up to the first
\* page with fewer than PageSize records and returns all the records of the
\* pages it requested, in order; nothing is dropped.
C10_FirstSync ==
  (pc = "fetched" /\ existing_ids = {}) =>
    /\ new_plays = PagesUpTo(Len(requested))
    /\ Len(PageOf(Len(requested))) < PageSize
    /\ \A i \in 1..(Len(requested) - 1) : Len(PageOf(i)) = PageSize
    /\ {new_plays[i] : i \in DOMAIN new_plays} =
         {p \in source : mindate = <<>> \/ p.date >= mindate[1]}

C10_Witness ==
  /\ pc = "fetched" /\ existing_ids = {}
  /\ Len(requested) = 3 /\ Len(new_plays) = 2 * PageSize + 1

\* A run has returned and no play was logged since.
RunEnded == pc = "idle" /\ runs >= 1

NewPlayIds == {new_plays[i].id : i \in DOMAIN new_plays}

\* C2: a run started on the source the previous run saw makes no write call
\* on the store, and the store it leaves passes validation.
C2_Idempotence ==
  repeat_run =>
    /\ calls = <<>>
    /\ RunEnded => validate_sync(Items, Players, Plays, PlayerPlays)

\* C3: every record row references an existing item row, every link row an
\* existing record row and an existing participant row.
C3_ReferentialIntegrity ==
  /\ \A i \in DOMAIN Plays : \E j \in DOMAIN Items : Items[j].id = Plays[i].Item
  /\ \A i \in DOMAIN PlayerPlays :
       /\ \E j \in DOMAIN Plays : Plays[j].id = PlayerPlays[i].Play
       /\ \E j \in DOMAIN Players : Players[j].id = PlayerPlays[i].Player

C3_Witness ==
  /\ RunEnded /\ runs = 2 /\ calls # <<>>
  /\ Len(Items) = 2 /\ Len(Plays) = 3 /\ Len(Players) = 2 /\ Len(PlayerPlays) >= 3

Rank(table_id) ==
  CASE table_id \in {"Players", "Items"} -> 1
    [] table_id = "Plays" -> 2
    [] table_id = "PlayerPlays" -> 3

\* C4: within a run the participant and item upserts come before the record
\* upsert and the record upsert before the link write; a run with new
\* records makes the item upsert and then the record upsert, and writes
\* links only after a participant upsert (a run whose plays list no player
\* makes no participant upsert and no link write).
C4_DependencyOrder ==
  /\ \A i, j \in DOMAIN calls : i < j => Rank(calls[i]) <= Rank(calls[j])
  /\ (pc \in {"sync_player_plays", "validate_sync"} \/ (RunEnded /\ new_plays # <<>>)) =>
       \E i, j \in DOMAIN calls : i < j /\ calls[i] = "Items" /\ calls[j] = "Plays"
  /\ (\E j \in DOMAIN calls : calls[j] = "PlayerPlays") =>
       \E i \in DOMAIN calls : calls[i] = "Players"

C4_Witness ==
  pc = "validate_sync" /\ calls = <<"Players", "Items", "Plays", "PlayerPlays">>

\* C5: no two record rows share a PlayID, no two item rows share an ItemID.
C5_UniqueKeys ==
  /\ \A i, j \in DOMAIN Plays : Plays[i].PlayID = Plays[j].PlayID => i = j
  /\ \A i, j \in DOMAIN Items : Items[i].ItemID = Items[j].ItemID => i = j

\* A second run upserted an item and a play that the first run had written.
C5_Witness ==
  /\ RunEnded /\ runs = 2 /\ repeat_run
  /\ \E i \in DOMAIN calls : calls[i] = "Items"
  /\ \E i \in DOMAIN calls : calls[i] = "Plays"
  /\ Len(Plays) = Cardinality(source)

\* C6: no two link rows share the same (Play, Player) pair.
C6_UniqueLinks ==
  \A i, j \in DOMAIN PlayerPlays :
    (PlayerPlays[i].Play = PlayerPlays[j].Play
       /\ PlayerPlays[i].Player = PlayerPlays[j].Player) => i = j

\* The rows of a table holding a given value of a key column.
RowsWith(table, key, value) == {i \in DOMAIN table : table[i][key] = value}

\* C7: once a batch is upserted, each natural key of the batch has exactly
\* one row and that row holds the fields of the batch, whatever the row held
\* before; no payload lists its key among the fields to update.
C7_NaturalKeyStability ==
  /\ pc \in {"sync_items", "sync_plays", "sync_player_plays", "validate_sync"} =>
       \A player \in {prepare_players(new_plays)[i] :
                        i \in DOMAIN prepare_players(new_plays)} :
         LET payload == GristPlayerUpsert_to_upsert_record(player)
         IN /\ Cardinality(RowsWith(Players, "Name", player.Name)) = 1
            /\ \A r \in RowsWith(Players, "Name", player.Name) :
                 Players[r].UserID = player.UserID
            /\ DOMAIN payload.require \cap DOMAIN payload.fields = {}
  /\ pc \in {"sync_plays", "sync_player_plays", "validate_sync"} =>
       \A item \in {prepare_items(new_plays)[i] :
                      i \in DOMAIN prepare_items(new_plays)} :
         LET payload == GristItemUpsert_to_upsert_record(item)
         IN /\ Cardinality(RowsWith(Items, "ItemID", item.ItemID)) = 1
            /\ \A r \in RowsWith(Items, "ItemID", item.ItemID) :
                 Items[r].Name = item.Name
            /\ DOMAIN payload.require \cap DOMAIN payload.fields = {}
  /\ pc \in {"sync_player_plays", "validate_sync"} =>
       \A i \in DOMAIN new_plays :
         /\ Cardinality(RowsWith(Plays, "PlayID", new_plays[i].id)) = 1
         /\ \A r \in RowsWith(Plays, "PlayID", new_plays[i].id) :
              /\ Plays[r].Date = new_plays[i].date
              /\ \E j \in DOMAIN Items :
                   /\ Items[j].id = Plays[r].Item
                   /\ Items[j].ItemID = new_plays[i].item.objectid

\* A later run has renamed an item and re-keyed a participant that an
\* earlier run had written from plays that are not part of this batch.
C7_Witness ==
  /\ pc = "sync_plays" /\ runs = 1
  /\ Len(Items) = 1 /\ Len(Players) = 1
  /\ \E p \in source :
       /\ p.id \notin NewPlayIds
       /\ p.item.objectid = Items[1].ItemID /\ p.item.name # Items[1].Name
  /\ \E p \in source :
       /\ p.id \notin NewPlayIds
       /\ p.players # <<>>
       /\ p.players[1].name = Players[1].Name
       /\ p.players[1].userid # Players[1].UserID

MaxSourceDate == Max({p.date : p \in source})

\* C8: after a successful run on a non-empty source, the first row of the
\* record table sorted by date descending is a source record carrying the
\* source's latest date.
C8_NewestRecord ==
  (RunEnded /\ result = "success" /\ ~dirty /\ source # {}) =>
    /\ Plays # <<>>
    /\ \A listing \in list_records_sorted(Plays, 1) :
         /\ listing[1].Date = MaxSourceDate
         /\ \E p \in source : p.id = listing[1].PlayID /\ p.date = MaxSourceDate

\* An incremental run has brought a record newer than all those stored.
C8_Witness ==
  /\ RunEnded /\ runs = 2 /\ result = "success" /\ ~dirty
  /\ found_overlap /\ new_plays # <<>>
  /\ \A i \in DOMAIN Plays :
       Plays[i].PlayID \notin NewPlayIds => Plays[i].Date < MaxSourceDate

\* C11: a run in which a page request to the source failed has ended, has
\* reported failure (exit code 1) and has made no write call on any table,
\* whatever the pages fetched before the failing one held.
C11_FetchFailure ==
  raised = "fetch" =>
    /\ pc = "idle" /\ result = "failed" /\ exit_code = <<1>>
    /\ calls = <<>>

\* Page 1 came back full of new plays, the request for page 2 failed.
C11_Witness ==
  /\ raised = "fetch" /\ runs = 1
  /\ requested = <<1, 2>> /\ Len(new_plays) = PageSize

\* C12: the step in which the store rejects the upsert of the participants
\* or of the items leaves the run at the next phase, with the tables as
\* they were.
C12_WriteErrorCaught ==
  [][(raised' \in {"sync_players", "sync_items"} /\ raised' # raised) =>
       (pc' \in {"sync_items", "sync_plays"} /\ UNCHANGED store)]_vars

PlayItemKnown(p) == p.item.objectid \in DOMAIN items_mapping

\* The positions of a batch whose item is in the item mapping.
Kept == {i \in DOMAIN new_plays : PlayItemKnown(new_plays[i])}

\* C13: prepare_plays yields one payload per play whose item is in the item
\* mapping and none for the others; the payloads are in input order and
\* each carries the play's id and date and the mapped row id of its item;
\* no row of the record table is written for a skipped play.
C13_MapRecords ==
  LET payloads == prepare_plays(new_plays, items_mapping)
  IN /\ Len(payloads) = Cardinality(Kept)
     /\ \A i \in Kept :
          LET k == Cardinality({j \in Kept : j <= i})
          IN /\ payloads[k].PlayID = new_plays[i].id
             /\ payloads[k].Date = new_plays[i].date
             /\ payloads[k].Item = items_mapping[new_plays[i].item.objectid]
     /\ \A i \in DOMAIN new_plays \ Kept :
          \A r \in DOMAIN Plays :
            Plays[r].PlayID = new_plays[i].id => Plays[r].Date # new_plays[i].date

\* The first play of the batch was skipped for its item, the second one was
\* written.
C13_Witness ==
  /\ pc = "sync_player_plays" /\ Len(new_plays) = 2
  /\ Kept = {2}
  /\ \E r \in DOMAIN Plays :
       Plays[r].PlayID = new_plays[2].id /\ Plays[r].Date = new_plays[2].date

\* C14: once an exception was raised in a phase of a run, the run has ended
\* and has reported failure.
C14_ExceptionFails ==
  raised \in {"baseline", "fetch", "sync_players", "sync_items", "sync_plays",
              "sync_player_plays", "validate_sync"} =>
    (pc = "idle" /\ result = "failed")

\* C15: a run that fetched new plays and raised no exception ends with
\* success exactly when the tables it leaves pass validate_sync, with
\* failure otherwise, and the step that validates writes nothing.
C15_OutcomeIsValidation ==
  /\ []((pc = "idle" /\ runs >= 1 /\ raised = "none" /\ new_plays # <<>>) =>
          /\ result \in {"success", "failed"}
          /\ result = "success" <=>
               validate_sync(Items, Players, Plays, PlayerPlays))
  /\ [][pc = "validate_sync" => UNCHANGED store]_vars

\* New plays were written, validation found the duplicated item and the run
\* failed with everything left in place.
C15_Witness ==
  /\ pc = "idle" /\ raised = "none" /\ result = "failed"
  /\ calls = <<"Players", "Items", "Plays", "PlayerPlays">>
  /\ Len(Plays) = MaxFailPlays

\* C16: the write phases and the validator are reached only with new plays;
\* a run whose fetch returned nothing, no exception raised, has ended with
\* success and has made no write call.
C16_EmptyFetch ==
  /\ pc \in {"sync_items", "sync_plays", "sync_player_plays", "validate_sync"} =>
       new_plays # <<>>
  /\ (RunEnded /\ ~dirty /\ raised = "none" /\ new_plays = <<>>) =>
       (result = "success" /\ calls = <<>>)

\* An incremental run found only known plays.
C16_Witness ==
  /\ RunEnded /\ ~dirty /\ raised = "none" /\ runs = 2 /\ new_plays = <<>>
  /\ result = "success" /\ requested = <<1>>
  /\ found_overlap /\ Plays # <<>>

\* C17: when the process has exited, the exit code is 0 exactly when
\* run_sync returned True, 1 after a configuration error, a fetch or write
\* error or a failed validation, and 130 after an interrupt, which leaves
\* run_sync as it is.
C17_ExitCodes ==
  (pc = "idle" /\ runs >= 1) =>
    /\ exit_code \in {<<0>>, <<1>>, <<130>>}
    /\ exit_code = <<0>> <=> result = "success"
    /\ (\/ raised \in {"ConfigurationError", "fetch", "sync_players",
                       "sync_items", "sync_plays", "sync_player_plays",
                       "validate_sync"}
        \/ result = "failed") => exit_code = <<1>>
    /\ raised = "KeyboardInterrupt" =>
         (exit_code = <<130>> /\ result = "KeyboardInterrupt")

\* The interrupt came after the items were written.
C17_Witness ==
  /\ pc = "idle" /\ raised = "KeyboardInterrupt" /\ exit_code = <<130>>
  /\ calls # <<>> /\ calls[Len(calls)] = "Items"

\* The display names of the participants of a batch.
PlayerNames(plays) ==
  LET all == AllPlayers(plays) IN {all[i].name : i \in DOMAIN all}

\* C18: no two participant rows share a display name; a batch yields one
\* payload per display name, and once the participants are written every
\* display name of the batch has exactly one row, names that share an
\* external id included.
C18_DisplayNameKey ==
  /\ \A i, j \in DOMAIN Players : Players[i].Name = Players[j].Name => i = j
  /\ LET payloads == prepare_players(new_plays)
         names == PlayerNames(new_plays)
     IN /\ \A i, j \in DOMAIN payloads : payloads[i].Name = payloads[j].Name => i = j
        /\ {payloads[i].Name : i \in DOMAIN payloads} = names
        /\ pc \in {"sync_items", "sync_plays", "sync_player_plays", "validate_sync"} =>
             \A n \in names : Cardinality(RowsWith(Players, "Name", n)) = 1

\* One name came with two external ids in the batch, two names share an
\* external id in the table.
C18_Witness ==
  /\ pc = "sync_items"
  /\ \E i, j \in DOMAIN AllPlayers(new_plays) :
       /\ AllPlayers(new_plays)[i].name = AllPlayers(new_plays)[j].name
       /\ AllPlayers(new_plays)[i].userid # AllPlayers(new_plays)[j].userid
  /\ \E i, j \in DOMAIN Players :
       Players[i].Name # Players[j].Name /\ Players[i].UserID = Players[j].UserID

\* The rows of Plays whose PlayID is among the known ids.
KnownRows == {r \in DOMAIN Plays : Plays[r].PlayID \in existing_ids}

\* C19: while the run fetches, the known ids are those of the
\* overlap_detection_limit rows of Plays with the latest dates (of all the
\* rows when there are fewer), each mapped to its row id; with no known id
\* mindate is unset, otherwise it is the latest date of Plays minus one.
C19_Baseline ==
  pc \in {"fetch", "fetched"} =>
    /\ Cardinality(existing_ids) <= overlap_detection_limit
    /\ Cardinality(existing_ids) = Min({overlap_detection_limit, Len(Plays)})
    /\ Cardinality(KnownRows) = Cardinality(existing_ids)
    /\ \A r \in KnownRows : recent_play_ids_dict[Plays[r].PlayID] = Plays[r].id
    /\ \A r \in KnownRows, q \in DOMAIN Plays \ KnownRows :
         Plays[r].Date >= Plays[q].Date
    /\ existing_ids = {} => mindate = <<>>
    /\ existing_ids # {} =>
         mindate = <<Max({Plays[r].Date : r \in DOMAIN Plays}) - 1>>

\* The table holds more rows than the limit, and an older row is left out.
C19_Witness ==
  /\ pc = "fetch" /\ Len(Plays) > overlap_detection_limit
  /\ \E q \in DOMAIN Plays \ KnownRows :
       \A r \in KnownRows : Plays[r].Date > Plays[q].Date
  /\ mindate = <<MaxDate - 1>>

\* C20: the step of sync_plays changes or adds only rows whose PlayID is
\* not a known id, and the mapping it returns holds every known id with its
\* row id and the id of every prepared play that was not known, mapped to
\* the row that holds it.
C20_SyncPlays ==
  [][pc = "sync_plays" =>
       LET payloads == prepare_plays(new_plays, items_mapping)
       IN /\ \A r \in DOMAIN Plays' :
               (r \notin DOMAIN Plays \/ Plays'[r] # Plays[r]) =>
                 Plays'[r].PlayID \notin DOMAIN recent_play_ids_dict
          /\ \A k \in DOMAIN recent_play_ids_dict :
               /\ k \in DOMAIN plays_mapping'
               /\ plays_mapping'[k] = recent_play_ids_dict[k]
          /\ \A i \in DOMAIN payloads :
               payloads[i].PlayID \notin DOMAIN recent_play_ids_dict =>
                 /\ payloads[i].PlayID \in DOMAIN plays_mapping'
                 /\ \E r \in DOMAIN Plays' :
                      /\ Plays'[r].id = plays_mapping'[payloads[i].PlayID]
                      /\ Plays'[r].PlayID = payloads[i].PlayID
                      /\ Plays'[r].Date = payloads[i].Date]_vars

\* The batch held a known play, which was left alone, and an unknown one,
\* which was written.
C20_Witness ==
  /\ pc = "sync_player_plays" /\ calls = <<"Plays">>
  /\ Len(new_plays) = 2 /\ Kept = {1, 2}
  /\ new_plays[1].id \in DOMAIN recent_play_ids_dict
  /\ new_plays[2].id \notin DOMAIN recent_play_ids_dict
  /\ \E r \in DOMAIN Plays : Plays[r].PlayID = new_plays[1].id /\ Plays[r].Date = 1

\* A validation has run to its end.
Validated == pc = "idle" /\ runs >= 1 /\ raised = "none" /\ trace # <<>>

PlayItemsValid == \A i \in DOMAIN Plays : \E j \in DOMAIN Items : Items[j].id = Plays[i].Item

LinksValid ==
  \A i \in DOMAIN PlayerPlays :
    /\ \E j \in DOMAIN Plays : Plays[j].id = PlayerPlays[i].Play
    /\ \E j \in DOMAIN Players : Players[j].id = PlayerPlays[i].Player

PlayIdsUnique == Cardinality({Plays[i].PlayID : i \in DOMAIN Plays}) = Len(Plays)

ItemIdsUnique == Cardinality({Items[i].ItemID : i \in DOMAIN Items}) = Len(Items)

\* C21: the validation succeeds exactly when, over the four tables in full,
\* every record row references an item row, every link row references a
\* record row and a participant row, no PlayID is held by two record rows and
\* no ItemID by two item rows; with any one of these broken it fails.
C21_ValidatorResult ==
  Validated =>
    (result = "success" <=>
       (PlayItemsValid /\ LinksValid /\ PlayIdsUnique /\ ItemIdsUnique))

\* The only thing wrong with the document is a link to a participant row
\* that does not exist.
C21_Witness ==
  /\ Validated /\ result = "failed"
  /\ PlayItemsValid /\ PlayIdsUnique /\ ItemIdsUnique
  /\ Len(Plays) = 2 /\ Len(PlayerPlays) = 2
  /\ \A i \in DOMAIN PlayerPlays :
       \E j \in DOMAIN Plays : Plays[j].id = PlayerPlays[i].Play
  /\ ~LinksValid

\* The checks a validation has run, in the order it ran them.
ChecksRun ==
  SelectSeq(trace, LAMBDA e : e \in {"check 2", "check 3", "check 4", "check 5"})

\* C22: a validation whose four listings succeeded has run check 2, check
\* 3, check 4 and check 5, in that order and each once, after the listings,
\* whatever the earlier checks found.
C22_ChecksIndependent ==
  Validated =>
    /\ ChecksRun = <<"check 2", "check 3", "check 4", "check 5">>
    /\ SubSeq(trace, Len(trace) - 3, Len(trace)) = ChecksRun
    /\ SubSeq(trace, Len(trace) - 7, Len(trace) - 4) = validate_sync_reads

\* Check 2 found a record row without a valid item, and the three other
\* checks ran all the same.
C22_Witness ==
  /\ Validated /\ result = "failed"
  /\ ~PlayItemsValid /\ LinksValid /\ PlayIdsUnique /\ ItemIdsUnique
  /\ ChecksRun[4] = "check 5"

C24_FirstOccurrenceWins ==
  LET items == extract_unique_items(new_plays)
      players == extract_unique_players(new_plays)
      all == AllPlayers(new_plays)
  IN /\ {items[k].objectid : k \in DOMAIN items} =
          {new_plays[i].item.objectid : i \in DOMAIN new_plays}
     /\ \A k \in DOMAIN items :
          /\ \A l \in DOMAIN items : items[k].objectid = items[l].objectid => k = l
          /\ items[k] = new_plays[Min({i \in DOMAIN new_plays :
                            new_plays[i].item.objectid = items[k].objectid})].item
     /\ {players[k].name : k \in DOMAIN players} = {all[i].name : i \in DOMAIN all}
     /\ \A k \in DOMAIN players :
          /\ \A l \in DOMAIN players : players[k].name = players[l].name => k = l
          /\ players[k] = all[Min({i \in DOMAIN all : all[i].name = players[k].name})]
     /\ (\A i \in DOMAIN new_plays : new_plays[i].players = <<>>) => players = <<>>
     /\ pc \in {"sync_plays", "sync_player_plays", "validate_sync"} =>
          \A k \in DOMAIN items :
            \E r \in DOMAIN Items :
              Items[r].ItemID = items[k].objectid /\ Items[r].Name = items[k].name

\* Two plays of the batch carry the same item under two names, and one
\* participant name comes with two external ids.
C24_Witness ==
  /\ pc = "sync_plays" /\ Len(new_plays) = 2
  /\ new_plays[1].item.objectid = new_plays[2].item.objectid
  /\ new_plays[1].item.name # new_plays[2].item.name
  /\ \E r \in DOMAIN Items : Items[r].Name = new_plays[1].item.name
  /\ new_plays[1].players = <<>>
  /\ \E r \in DOMAIN Players : Players[r].Name = "ann" /\ Players[r].UserID = 0

\* The (play, player) positions of the batch whose play is in the record
\* mapping and whose player is in the participant mapping.
LinkedPositions ==
  {x \in UNION {{<<i, j>> : j \in DOMAIN new_plays[i].players} : i \in DOMAIN new_plays} :
     /\ new_plays[x[1]].id \in DOMAIN plays_mapping
     /\ new_plays[x[1]].players[x[2]].name \in DOMAIN players_mapping}

\* C25: prepare_player_plays yields one link for each player of the batch
\* that is in the participant mapping and whose play is in the record
\* mapping, and no other link: a player missing from the participant
\* mapping costs that one link, a play missing from the record mapping has
\* no link; the links are in batch order and carry the mapped row ids of
\* the play and of the player; they are the rows sync_player_plays adds.
C25_MapLinks ==
  LET links == prepare_player_plays(new_plays, plays_mapping, players_mapping)
  IN /\ Len(links) = Cardinality(LinkedPositions)
     /\ \A x \in LinkedPositions :
          LET k == Cardinality({y \in LinkedPositions :
                     y[1] < x[1] \/ (y[1] = x[1] /\ y[2] <= x[2])})
              player == new_plays[x[1]].players[x[2]]
          IN /\ links[k].Play = plays_mapping[new_plays[x[1]].id]
             /\ links[k].Player = players_mapping[player.name]
             /\ links[k].Score = player.score
     /\ pc = "validate_sync" =>
          /\ Len(PlayerPlays) = Len(links)
          /\ \A k \in DOMAIN links :
               /\ PlayerPlays[k].Play = links[k].Play
               /\ PlayerPlays[k].Player = links[k].Player
               /\ PlayerPlays[k].Score = links[k].Score

\* Of the two players of the first play one is missing from the participant
\* mapping, and the second play is missing from the record mapping: the one
\* link written is that of the other player of the first play.
C25_Witness ==
  /\ pc = "validate_sync" /\ Len(new_plays) = 2
  /\ Len(new_plays[1].players) = 2 /\ Len(new_plays[2].players) = 2
  /\ new_plays[1].id \in DOMAIN plays_mapping
  /\ new_plays[2].id \notin DOMAIN plays_mapping
  /\ DOMAIN players_mapping = {"bob"}
  /\ Len(PlayerPlays) = 1
  /\ PlayerPlays[1].Player = players_mapping["bob"]

\* C26: once the participants were upserted, the participant mapping holds
\* the name of every row of Players, the rows of earlier runs included, each
\* with the id of its row, and so every name of the batch; the same for the
\* items once they were upserted; each of the two upserts is followed at
\* once by the listing of its table, before the records are written.
C26_ReadBackMaps ==
  /\ (pc \in {"sync_items", "sync_plays", "sync_player_plays", "validate_sync"}
        /\ \E c \in DOMAIN calls : calls[c] = "Players") =>
       /\ DOMAIN players_mapping = {Players[r].Name : r \in DOMAIN Players}
       /\ \A r \in DOMAIN Players : players_mapping[Players[r].Name] = Players[r].id
       /\ pc = "sync_items" =>
            /\ PlayerNames(new_plays) \subseteq DOMAIN players_mapping
            /\ SubSeq(trace, Len(trace) - 1, Len(trace)) =
                 <<"add_update_records", "list_records">>
  /\ pc \in {"sync_plays", "sync_player_plays", "validate_sync"} =>
       /\ DOMAIN items_mapping = {Items[r].ItemID : r \in DOMAIN Items}
       /\ \A r \in DOMAIN Items : items_mapping[Items[r].ItemID] = Items[r].id
       /\ pc = "sync_plays" =>
            /\ {new_plays[i].item.objectid : i \in DOMAIN new_plays}
                 \subseteq DOMAIN items_mapping
            /\ SubSeq(trace, Len(trace) - 1, Len(trace)) =
                 <<"add_update_records", "list_records">>
            /\ \A c \in DOMAIN calls : calls[c] # "Plays"

\* The batch of a later run brings one item and one participant; the item
\* and the participant of the earlier run are in the mappings too.
C26_Witness ==
  /\ pc = "sync_plays" /\ runs = 1
  /\ Len(Items) = 2 /\ Len(Players) = 2
  /\ Cardinality({new_plays[i].item.objectid : i \in DOMAIN new_plays}) = 1
  /\ Cardinality(PlayerNames(new_plays)) = 1
  /\ Cardinality(DOMAIN items_mapping) = 2
  /\ Cardinality(DOMAIN players_mapping) = 2

\* The positions of the trace that belong to the fetch loop, and those of
\* the write calls.
FetchEvents == {i \in DOMAIN trace : trace[i] \in {"sleep", "get_plays"}}

WriteEvents == {i \in DOMAIN trace : trace[i] \in {"add_update_records", "add_records"}}

\* C27: the calls of a run begin with the baseline reads, one or two; the
\* calls of the fetch loop come next, in one block that holds no read and no
\* write of the store; every write comes after that block; while the run
\* fetches, no write call has been made.
C27_PhasesSequential ==
  /\ trace # <<>> => trace[1] = "list_records"
  /\ FetchEvents # {} =>
       /\ Min(FetchEvents) \in {2, 3}
       /\ \A i \in 1..(Min(FetchEvents) - 1) : trace[i] = "list_records"
       /\ FetchEvents = Min(FetchEvents)..Max(FetchEvents)
       /\ \A w \in WriteEvents : w > Max(FetchEvents)
  /\ WriteEvents # {} => FetchEvents # {}
  /\ pc = "fetch" => (calls = <<>> /\ WriteEvents = {})

\* One read of the empty record table, two page requests, then the writes.
C27_Witness ==
  /\ pc = "validate_sync" /\ requested = <<1, 2>>
  /\ calls = <<"Players", "Items", "Plays", "PlayerPlays">>
  /\ SubSeq(trace, 1, 5) =
       <<"list_records", "get_plays", "sleep", "get_plays", "add_update_records">>

PageRequests == {i \in DOMAIN trace : trace[i] = "get_plays"}

Delays == {i \in DOMAIN trace : trace[i] = "sleep"}

\* C28: the fetch loop makes one request per page it asks for; nothing of
\* the loop comes before the first request; every later request has one
\* delay right before it, and the request before that delay; every delay is
\* followed by a request, so that none comes after the last request.
C28_Delays ==
  /\ Cardinality(PageRequests) = Len(requested)
  /\ PageRequests # {} => Min(FetchEvents) = Min(PageRequests)
  /\ \A i \in PageRequests :
       i # Min(PageRequests) => (trace[i - 1] = "sleep" /\ trace[i - 2] = "get_plays")
  /\ \A i \in Delays : i < Len(trace) /\ trace[i + 1] = "get_plays"
  /\ Cardinality(Delays) = IF requested = <<>> THEN 0 ELSE Len(requested) - 1

\* Three pages were requested, with a delay before the second and the third.
C28_Witness ==
  /\ pc = "fetched" /\ requested = <<1, 2, 3>>
  /\ trace = <<"get_plays", "sleep", "get_plays", "sleep", "get_plays">>

\* Every row of the table is still there, under its id and its key.
RowsKept(before, after, key) ==
  \A r \in DOMAIN before :
    /\ r \in DOMAIN after
    /\ after[r].id = before[r].id
    /\ after[r][key] = before[r][key]

\* C29: no step removes a row from a table or gives a row another key, and
\* a link row is never changed; the step that ends a run, be it the
\* validation, passed or failed, an exception or an interrupt, leaves the
\* four tables as they are.
C29_NoRowRemoved ==
  [][/\ RowsKept(Items, Items', "ItemID")
     /\ RowsKept(Players, Players', "Name")
     /\ RowsKept(Plays, Plays', "PlayID")
     /\ \A r \in DOMAIN PlayerPlays :
          r \in DOMAIN PlayerPlays' /\ PlayerPlays'[r] = PlayerPlays[r]
     /\ (pc # "idle" /\ pc' = "idle") => UNCHANGED store]_vars

\* The run was interrupted after it had written the participants and the
\* items: their rows are in the tables, records there are none.
C29_Witness ==
  /\ pc = "idle" /\ raised = "KeyboardInterrupt"
  /\ calls = <<"Players", "Items">>
  /\ Len(Players) = 2 /\ Len(Items) = 2 /\ Plays = <<>>

SourceIds == {p.id : p \in source}

StoredIds(table) == {table[r].PlayID : r \in DOMAIN table}

\* Play p comes before play q in the page order of the source.
Precedes(p, q) == p.date > q.date \/ (p.date = q.date /\ p.id > q.id)

\* The record table holds plays of the source, as the source has them, and
\* every play of the source it does not hold comes before all those it
\* holds in the page order of the source.
OnlyNewestMissing ==
  /\ \A r \in DOMAIN Plays :
       \E p \in source : p.id = Plays[r].PlayID /\ p.date = Plays[r].Date
  /\ \A m \in source, q \in source :
       (m.id \notin StoredIds(Plays) /\ q.id \in StoredIds(Plays)) => Precedes(m, q)

\* C30: from the baseline reads to the record phase of a run neither the
\* source nor the record table changes; when the record table then lacks
\* only plays that come before all the stored ones in the page order, the
\* step that writes the records, or the step that ends the run for want of
\* new plays, leaves the record table with the ids of the source, no more
\* and no less; the steps after the record phase leave the record table
\* alone.
C30_Completeness ==
  [][/\ pc \in {"fetch", "fetched", "sync_items"} =>
          (source' = source /\ (pc' # "idle" => Plays' = Plays))
     /\ (pc = "sync_plays" /\ OnlyNewestMissing) => StoredIds(Plays') = SourceIds
     /\ (pc = "fetched" /\ pc' = "idle" /\ OnlyNewestMissing) =>
          StoredIds(Plays') = SourceIds
     /\ pc \in {"sync_player_plays", "validate_sync"} => Plays' = Plays]_vars

\* A later run found the one play logged since the run before, newer than
\* the two stored ones, and ended with the three in the record table.
C30_Witness ==
  /\ RunEnded /\ runs = 2 /\ result = "success" /\ ~dirty
  /\ found_overlap /\ Len(new_plays) = 1
  /\ \A p \in source : p.id # new_plays[1].id => Precedes(new_plays[1], p)
  /\ Len(Plays) = 3 /\ StoredIds(Plays) = SourceIds

\* C31: at every point of the fetch loop, whatever the pages and the known
\* ids, no play collected so far has a known id; so the filter of
\* sync_plays, given the records prepared from the collected plays and the
\* mapping whose keys are the known ids, keeps every one of them.
C31_NoKnownIdFetched ==
  /\ \A i \in DOMAIN new_plays : new_plays[i].id \notin existing_ids
  /\ LET plays_list == prepare_plays(new_plays, MappingOf(MapItems, "ItemID"))
     IN /\ Len(plays_list) = Len(new_plays)
        /\ SelectSeq(plays_list, LAMBDA p : p.PlayID \notin DOMAIN recent_play_ids_dict)
             = plays_list

\* The first page held a known play and a new one: the loop ended there with
\* the new one.
C31_Witness ==
  /\ pc = "fetched" /\ requested = <<1>> /\ found_overlap
  /\ Len(PageOf(1)) = PageSize
  /\ Cardinality(PageIds(1) \cap existing_ids) = 1
  /\ Len(new_plays) = 1 /\ new_plays[1].id \in PageIds(1)

\* C32: when the listing of the stored plays fails, the run goes on with an
\* empty map: no known id, no minimum date; the fetcher then returns the
\* whole history, and a run that meets no other failure writes all of it and
\* ends with the verdict of the validator.
C32_BaselineFailureTolerated ==
  (raised = "baseline" /\ recent_play_ids_dict = EmptyDict) =>
    /\ existing_ids = {} /\ mindate = <<>>
    /\ pc # "fetch" => NewPlayIds = SourceIds
    /\ pc = "idle" =>
         /\ SourceIds \subseteq StoredIds(Plays)
         /\ Len(PlayerPlays) >= Len(AllPlayers(new_plays))
         /\ result = IF new_plays = <<>> THEN "success"
                     ELSE run_sync_outcome(validate_sync(Items, Players, Plays,
                                                         PlayerPlays))
         /\ exit_code = <<main(result)>>

\* The second run lost its baseline listing, fetched the stored plays again
\* and ended in success.
C32_Witness ==
  /\ pc = "idle" /\ runs = 2 /\ raised = "baseline"
  /\ recent_play_ids_dict = EmptyDict
  /\ Len(new_plays) = MaxFailPlays /\ Len(Plays) = MaxFailPlays
  /\ Len(calls) >= 2 /\ result = "success"
  /\ PlayerPlays # <<>> /\ Len(PlayerPlays) = 2 * Len(AllPlayers(new_plays))

\* C33: in a run in which no call has failed, the mappings read back cover
\* the batch: the fetched plays yield one play payload each, in order, and
\* the participants of those plays yield one link payload each.
C33_NoMappingGap ==
  raised = "none" =>
    /\ pc = "sync_plays" =>
         LET plays_list == prepare_plays(new_plays, items_mapping)
         IN /\ Len(plays_list) = Len(new_plays)
            /\ \A i \in DOMAIN new_plays : plays_list[i].PlayID = new_plays[i].id
    /\ pc = "sync_player_plays" =>
         Len(prepare_player_plays(new_plays, plays_mapping, players_mapping))
           = Len(AllPlayers(new_plays))

\* The second run is about to write the links of two plays with at least
\* three participants between them.
C33_Witness ==
  /\ pc = "sync_player_plays" /\ raised = "none" /\ runs = 1
  /\ Len(new_plays) = MaxFailPlays /\ Len(AllPlayers(new_plays)) >= 3
  /\ Len(prepare_player_plays(new_plays, plays_mapping, players_mapping)) >= 3

\* C34: the fetch loop returns, and when it has returned it has requested
\* the pages in order from 1 and no more of them than the index of the first
\* page that is empty, short of PageSize or overlapping the known ids.
C34_FetchTerminates ==
  <>(/\ pc = "fetched"
     /\ requested = [i \in 1..Len(requested) |-> i]
     /\ \A k \in PageNumbers : StopsAt(k) => Len(requested) <= k)

\* Two full pages without a known id were followed by an empty third page,
\* where the loop ended.
C34_Witness ==
  /\ pc = "fetched" /\ requested = <<1, 2, 3>> /\ PageOf(3) = <<>>
  /\ ~StopsAt(1) /\ ~StopsAt(2) /\ Len(new_plays) = 2 * PageSize

\* The calls of the store that read and the checks of the validator.
ReadCalls == {"list_records", "check 2", "check 3", "check 4", "check 5"}

\* C35: the baseline reads at the start of a run and the validation at its
\* end, whether they return data, nothing, a verdict or fail, leave the four
\* tables as they were and make no write call: what they add to the calls of
\* the run are reads and checks only.
C35_ReadsOnly ==
  [][(\/ pc = "idle" /\ pc' = "fetch"
      \/ pc = "validate_sync" /\ pc' = "idle") =>
       /\ UNCHANGED store
       /\ calls' \in {calls, <<>>}
       /\ \A i \in DOMAIN trace' :
            (pc = "idle" \/ i > Len(trace)) => trace'[i] \in ReadCalls]_vars

\* The first run ended in a failed validation over tables with a duplicated
\* item; the second run has read its baseline and found all the rows there.
C35_Witness ==
  /\ pc = "fetch" /\ runs = 1 /\ result = "failed" /\ requested = <<>>
  /\ ~ItemIdsUnique /\ Len(Plays) = MaxFailPlays /\ PlayerPlays # <<>>
  /\ Cardinality(existing_ids) = MaxFailPlays /\ mindate # <<>>
  /\ trace = <<"list_records", "list_records">>

====
